---------------------------- MODULE Spec2Model ----------------------------
(***************************************************************************)
(* A model of the core of yocto_shape.h (yocto-gl): the undirected edge    *)
(* dictionary (edge_map), edge subdivision (split_edges,                   *)
(* tesselate_stdshape), the element distribution (sample_shape_cdf) and    *)
(* the inverse-CDF sampler (sample_shape, _bsearch_smaller).               *)
(*                                                                         *)
(* C++ containers are 0-based, TLA+ sequences 1-based: element i of a      *)
(* vector is s[i + 1] here, and a vec2i e is the pair <<e[0], e[1]>>.      *)
(***************************************************************************)
EXTENDS Integers, Sequences, FiniteSets, TLC

VARIABLES
    em,             \* edge_map::_map: canonical edge -> id
    em_order,       \* history: the edges in order of first insertion, as passed
    em_op,          \* history: the last edge_map call, its argument and result
    nverts,         \* split_edges: the number of vertices of the mesh
    lines,          \* the mesh's lines, a sequence of vec2i
    triangles,      \* the mesh's triangles, a sequence of vec3i
    tess_lines,     \* split_edges' out parameter tess_lines
    tess_triangles, \* split_edges' out parameter tess_triangles
    tess_edges,     \* split_edges' out parameter edges
    sp_pc,          \* "idle", "input" before split_edges, then "done" or "assert"
    pos,            \* vertex positions, empty or one per vertex
    norm,           \* vertex normals, empty or one per vertex
    texcoord,       \* vertex texture coordinates, empty or one per vertex
    color,          \* vertex colors, empty or one per vertex
    radius,         \* vertex radii, empty or one per vertex
    vcount,         \* history: the number of vertices of the mesh
    ts_pc,          \* "idle", "input" before tesselate_stdshape, then "done" or "assert"
    ts_pre,         \* history: the mesh as it was before the last tesselate_stdshape
    ts_round,       \* history: the number of tesselate_stdshape calls made
    points,         \* the shape's points, a sequence of vertex ids
    cdf,            \* the array_view<float> of element cdfs
    weight,         \* sample_shape_cdf's out parameter weight
    ern,            \* sample_shape: the draw that selects the element
    uvrn,           \* sample_shape: the draw that selects the place in the element
    eid,            \* sample_shape's out parameter eid
    euv,            \* sample_shape's out parameter euv
    sm_kind,        \* which sample_shape overload runs: "points", "lines", "triangles"
    sm_pc,          \* "idle", "input", "built", "search", "done" or "assert"
    low,            \* _bsearch_smaller's local low
    high,           \* _bsearch_smaller's local high
    sm_entry,       \* "overload", or "shape" when the three-cdf sample_shape runs
    shape_cdfs,     \* the point_cdf, line_cdf and triangle_cdf of sample_shape
    vert,           \* interpolate_vert: the vertex property, one value per vertex
    val,            \* interpolate_vert's return value
    iv_kind,        \* which interpolate_vert runs: "shape", "lines" or "triangles"
    iv_pc           \* "idle", then "done" or "assert" after interpolate_vert

emVars == <<em, em_order, em_op>>
meshVars == <<nverts, lines, triangles>>
splitVars == <<tess_lines, tess_triangles, tess_edges, sp_pc>>
attrVars == <<pos, norm, texcoord, color, radius>>
tessVars == <<attrVars, vcount, ts_pc, ts_pre, ts_round>>
cdfVars == <<points, cdf, weight>>
sampleVarsButPc == <<ern, uvrn, eid, euv, sm_kind, low, high, sm_entry>>
sampleVars == <<sampleVarsButPc, sm_pc>>
interpVars == <<shape_cdfs, vert, val, iv_kind, iv_pc>>
vars == <<emVars, meshVars, splitVars, tessVars, cdfVars, sampleVars, interpVars>>

\* the sequences over S of length at most n
SeqUpTo(S, n) == UNION {[1 .. k -> S] : k \in 0 .. n}

-----------------------------------------------------------------------------
(* float.  A value is a fraction <<n, d>> in lowest terms with d >= 0:       *)
(* d > 0 is the rational n/d, <<1, 0>> and <<-1, 0>> are the infinities and  *)
(* <<0, 0>> is NaN.  The rounding of the 32-bit format is not modelled: the  *)
(* values used are small fractions and the claims are about order, equality  *)
(* with 1 and NaN, which rounding to nearest preserves.                      *)

Abs(i) == IF i < 0 THEN -i ELSE i
Sign(i) == IF i < 0 THEN -1 ELSE IF i > 0 THEN 1 ELSE 0

RECURSIVE Gcd(_, _)
Gcd(a, b) == IF b = 0 THEN a ELSE Gcd(b, a % b)

\* the fraction n/d, d of any sign, in lowest terms
Frac(n, d) ==
    IF d = 0 THEN <<Sign(n), 0>>
    ELSE LET g == Gcd(Abs(n), Abs(d)) IN <<(Sign(d) * n) \div g, Abs(d) \div g>>

F(i) == <<i, 1>>
NaN == <<0, 0>>
IsNaN(x) == x = NaN
IsFinite(x) == x[2] > 0

FAdd(x, y) ==
    IF x[2] = 0 /\ y[2] = 0
    THEN (IF x = y THEN x ELSE NaN)
    ELSE Frac(x[1] * y[2] + y[1] * x[2], x[2] * y[2])
FNeg(x) == <<-x[1], x[2]>>
FSub(x, y) == FAdd(x, FNeg(y))
FMul(x, y) == Frac(x[1] * y[1], x[2] * y[2])
FDiv(x, y) == Frac(x[1] * y[2] * (IF y[1] < 0 THEN -1 ELSE 1), x[2] * Abs(y[1]))

\* x < y: false when either is NaN
FLess(x, y) ==
    /\ ~IsNaN(x)
    /\ ~IsNaN(y)
    /\ IF x[2] = 0 /\ y[2] = 0 THEN x[1] < y[1]
       ELSE x[1] * y[2] < y[1] * x[2]
\* x == y: false when either is NaN
FEq(x, y) == ~IsNaN(x) /\ ~IsNaN(y) /\ x = y
FLeq(x, y) == FLess(x, y) \/ FEq(x, y)

-----------------------------------------------------------------------------
(* Bounds of the edge_map specification. *)

\* vertex ids of the edges inserted are 0 .. EmMaxVert
EmMaxVert == 2
\* the map is grown to at most EmMaxSize entries
EmMaxSize == 2

EmVerts == 0 .. EmMaxVert
EmEdges == EmVerts \X EmVerts

-----------------------------------------------------------------------------
(* edge_map *)

min(a, b) == IF a < b THEN a ELSE b
max(a, b) == IF a < b THEN b ELSE a

\* a plausible slip: the key keeps the direction of the edge
edge_directed(e) == e

\* edge_map::_edge
_edge(e) == <<min(e[1], e[2]), max(e[1], e[2])>>

\* edge_map::size
size(m) == Cardinality(DOMAIN m)

\* edge_map::has_edge
has_edge(m, e) == _edge(e) \in DOMAIN m

\* a plausible slip: ids start at one
insert_from_one(m, e) ==
    IF ~has_edge(m, e)
    THEN [k \in DOMAIN m \cup {_edge(e)} |->
            IF k = _edge(e) THEN size(m) + 1 ELSE m[k]]
    ELSE m

\* edge_map::insert
insert(m, e) ==
    IF ~has_edge(m, e)
    THEN [k \in DOMAIN m \cup {_edge(e)} |->
            IF k = _edge(e) THEN size(m) ELSE m[k]]
    ELSE m

\* edge_map::operator[] with the assertion compiled out (NDEBUG)
at(m, e) == IF ~has_edge(m, e) THEN -1 ELSE m[_edge(e)]

\* edge_map(): the empty map
edge_map == [k \in {} |-> 0]

\* history only: e or its reverse was passed to insert before
Inserted(e) ==
    \E i \in 1 .. Len(em_order) :
        em_order[i] = e \/ em_order[i] = <<e[2], e[1]>>

\* the record of one edge_map call
EmCall(op, e, ret, failed) == [op |-> op, e |-> e, ret |-> ret, failed |-> failed]

\* a freshly constructed edge_map, no call made
EmNew ==
    /\ em = edge_map
    /\ em_order = <<>>
    /\ em_op = EmCall("new", <<0, 0>>, 0, FALSE)

\* no mesh and no subdivision in progress
MeshNone ==
    /\ nverts = 0
    /\ lines = <<>>
    /\ triangles = <<>>

SplitNone ==
    /\ tess_lines = <<>>
    /\ tess_triangles = <<>>
    /\ tess_edges = <<>>
    /\ sp_pc = "idle"

\* no shape being tessellated
TessIdle ==
    /\ norm = <<>>
    /\ texcoord = <<>>
    /\ color = <<>>
    /\ radius = <<>>
    /\ vcount = 0
    /\ ts_pc = "idle"
    /\ ts_pre = [n |-> 0, lines |-> <<>>, triangles |-> <<>>, has |-> {}]
    /\ ts_round = 0

TessNone == pos = <<>> /\ TessIdle

\* no distribution built and no sample drawn; the out parameters hold
\* nothing yet
CdfNone ==
    /\ points = <<>>
    /\ cdf = <<>>
    /\ weight = F(0)

\* no draw made
SampleIdle ==
    /\ ern = F(0)
    /\ uvrn = <<F(0), F(0)>>
    /\ eid = -1
    /\ euv = <<F(0), F(0)>>
    /\ sm_kind = "points"
    /\ sm_entry = "overload"
    /\ low = 0
    /\ high = 0

\* no property interpolated
InterpNone ==
    /\ shape_cdfs = <<<<>>, <<>>, <<>>>>
    /\ vert = <<>>
    /\ val = F(0)
    /\ iv_kind = "shape"
    /\ iv_pc = "idle"

SampleNone == SampleIdle /\ InterpNone

EmInit ==
    EmNew /\ MeshNone /\ SplitNone /\ TessNone /\ CdfNone /\ SampleNone /\ sm_pc = "idle"

\* a call of insert(e)
EmInsert ==
    \E e \in EmEdges :
        /\ has_edge(em, e) \/ size(em) < EmMaxSize
        /\ em' = insert(em, e)
        /\ em_order' = IF Inserted(e) THEN em_order ELSE Append(em_order, e)
        /\ em_op' = EmCall("insert", e, 0, FALSE)
        /\ UNCHANGED <<interpVars, meshVars, splitVars, tessVars, cdfVars, sampleVars>>

\* a call of has_edge(e); ret is 1 for true
EmHasEdge ==
    \E e \in EmEdges :
        /\ em_op' = EmCall("has_edge", e, IF has_edge(em, e) THEN 1 ELSE 0, FALSE)
        /\ UNCHANGED <<interpVars, em, em_order, meshVars, splitVars, tessVars, cdfVars, sampleVars>>

\* a call of operator[](e): assert(has_edge(e)) aborts on a missing edge when
\* assertions are compiled in, and with NDEBUG the call returns -1
EmLookup ==
    \E e \in EmEdges :
        /\ \/ em_op' = EmCall("lookup", e, at(em, e), FALSE)
           \/ /\ ~has_edge(em, e)
              /\ em_op' = EmCall("lookup", e, -1, TRUE)
        /\ UNCHANGED <<interpVars, em, em_order, meshVars, splitVars, tessVars, cdfVars, sampleVars>>

EmNext == EmInsert \/ EmHasEdge \/ EmLookup

SpecEdgeMap == EmInit /\ [][EmNext]_vars

-----------------------------------------------------------------------------
(* Claims about edge_map, checked under SpecEdgeMap. *)

\* the step is a call of insert
EmInsertStep == em_op'.op = "insert" /\ em_op' # em_op

\* C1: once an edge (a,b), a # b, has been inserted, inserting (a,b) or (b,a)
\* again changes neither size() nor the id of any edge inserted before, and
\* the lookups of (a,b) and of (b,a) return the same id.
C1_InsertIdempotent ==
    /\ [](\A e \in EmEdges :
            (e[1] # e[2] /\ Inserted(e)) =>
                /\ at(em, e) = at(em, <<e[2], e[1]>>)
                /\ at(em, e) >= 0)
    /\ [][EmInsertStep =>
            LET e == em_op'.e IN
            (e[1] # e[2] /\ Inserted(e)) =>
                /\ size(em') = size(em)
                /\ \A i \in 1 .. Len(em_order) :
                      /\ at(em', em_order[i]) = at(em, em_order[i])
                      /\ at(em', <<em_order[i][2], em_order[i][1]>>)
                            = at(em, em_order[i])]_vars

\* C1 witness: (0,1) was inserted, then (1,0), and the map holds one edge
C1_Witness ==
    /\ em_order = <<<<0, 1>>>>
    /\ em_op = EmCall("insert", <<1, 0>>, 0, FALSE)
    /\ size(em) = 1

\* history only: the unordered endpoints of an edge
Ends(e) == {e[1], e[2]}

\* C2: the ids are exactly 0 .. size()-1, one per distinct undirected edge,
\* and the k-th distinct edge in order of first insertion has id k.
C2_DenseIds ==
    /\ size(em) = Len(em_order)
    /\ {em[k] : k \in DOMAIN em} = 0 .. (size(em) - 1)
    /\ \A k, l \in DOMAIN em : Ends(k) = Ends(l) => k = l
    /\ \A k \in DOMAIN em : k[1] <= k[2]
    /\ \A i \in 1 .. Len(em_order) :
          /\ <<min(em_order[i][1], em_order[i][2]),
               max(em_order[i][1], em_order[i][2])>> \in DOMAIN em
          /\ at(em, em_order[i]) = i - 1

\* C2 witness: two distinct edges, the second first inserted reversed and
\* inserted again since
C2_Witness ==
    /\ em_order = <<<<0, 1>>, <<2, 1>>>>
    /\ em_op = EmCall("insert", <<1, 2>>, 0, FALSE)
    /\ at(em, <<1, 2>>) = 1

\* history only: the id given to e, its place in the order of first insertion
IdOf(e) ==
    (CHOOSE i \in 1 .. Len(em_order) :
        em_order[i] = e \/ em_order[i] = <<e[2], e[1]>>) - 1

\* the step is a call of operator[] or of has_edge
EmReadStep == em_op'.op \in {"lookup", "has_edge"} /\ em_op' # em_op

\* C15: operator[] returns the id of an edge that is present, in either
\* orientation, and signals an explicit error for an edge that is absent,
\* never returning a value in its place; neither operator[] nor has_edge
\* changes the map.
C15_LookupSignals ==
    /\ [](em_op.op = "lookup" =>
            IF Inserted(em_op.e)
            THEN ~em_op.failed /\ em_op.ret = IdOf(em_op.e)
            ELSE em_op.failed)
    /\ [][EmReadStep => em' = em]_vars

-----------------------------------------------------------------------------
(* make_edge_map and split_edges *)

\* vertex ids of the meshes split are 0 .. SpMaxVert
SpMaxVert == 2
\* a mesh split has at most SpMaxIndices vertex indices in its lines (two
\* each) and triangles (three each) together
SpMaxIndices == 7

SpVerts == 0 .. SpMaxVert

\* a plausible slip: the edge that closes the triangle is left out
tri_edges_open(t) == <<<<t[1], t[2]>>, <<t[2], t[3]>>>>

\* the directed edges make_edge_map takes from triangle t: {t[i], t[(i+1)%3]}
tri_edges(t) == <<<<t[1], t[2]>>, <<t[2], t[3]>>, <<t[3], t[1]>>>>

RECURSIVE insert_all(_, _)
\* map.insert over a sequence of edges, in order
insert_all(m, es) ==
    IF es = <<>> THEN m ELSE insert_all(insert(m, Head(es)), Tail(es))

RECURSIVE insert_triangles(_, _)
\* the loop of make_edge_map over the triangles
insert_triangles(m, ts) ==
    IF ts = <<>> THEN m
    ELSE insert_triangles(insert_all(m, tri_edges(Head(ts))), Tail(ts))

\* a plausible slip: the lines are left out of the map
make_edge_map_no_lines(ls, ts) == insert_triangles(edge_map, ts)

\* make_edge_map
make_edge_map(ls, ts) == insert_triangles(insert_all(edge_map, ls), ts)

\* a plausible slip: the out vector is not cleared
clear_forgotten(v) == v

\* vector::clear, as split_edges calls it on tess_lines and tess_triangles
clear(v) == <<>>

\* the two lines split_edges pushes for line l
split_line(n, m, l) == <<<<l[1], n + at(m, l)>>, <<n + at(m, l), l[2]>>>>

RECURSIVE push_lines(_, _, _, _)
\* the loop of split_edges over the lines
push_lines(out, n, m, ls) ==
    IF ls = <<>> THEN out
    ELSE push_lines(out \o split_line(n, m, Head(ls)), n, m, Tail(ls))

\* a plausible slip: the corner triangle takes its two edges in the other order
corner_swapped(n, m, t, i) ==
    <<t[i + 1], n + at(m, <<t[i + 1], t[((i + 2) % 3) + 1]>>),
                n + at(m, <<t[i + 1], t[((i + 1) % 3) + 1]>>)>>

\* the triangle split_edges pushes for corner i (0, 1, 2) of triangle t
corner(n, m, t, i) ==
    <<t[i + 1], n + at(m, <<t[i + 1], t[((i + 1) % 3) + 1]>>),
                n + at(m, <<t[i + 1], t[((i + 2) % 3) + 1]>>)>>

\* the last triangle split_edges pushes for triangle t
center(n, m, t) ==
    <<n + at(m, <<t[1], t[2]>>), n + at(m, <<t[2], t[3]>>), n + at(m, <<t[3], t[1]>>)>>

RECURSIVE push_triangles(_, _, _, _)
\* the loop of split_edges over the triangles
push_triangles(out, n, m, ts) ==
    IF ts = <<>> THEN out
    ELSE push_triangles(
            out \o <<corner(n, m, Head(ts), 0), corner(n, m, Head(ts), 1),
                     corner(n, m, Head(ts), 2), center(n, m, Head(ts))>>,
            n, m, Tail(ts))

\* vector<vec2i>::resize: the first k entries kept, new ones value-initialised
resize(v, k) == [i \in 1 .. k |-> IF i <= Len(v) THEN v[i] ELSE <<0, 0>>]

\* a plausible slip: the edges are stored one slot too far
store_edges_shifted(v, m) ==
    [i \in 1 .. Len(v) |->
        IF \E k \in DOMAIN m : m[k] = i - 2
        THEN CHOOSE k \in DOMAIN m : m[k] = i - 2
        ELSE v[i]]

\* the loop "for (auto e : em) edges[e.second] = e.first"; a slot no entry
\* of the map names keeps what resize left there
store_edges(v, m) ==
    [i \in 1 .. Len(v) |->
        IF \E k \in DOMAIN m : m[k] = i - 1
        THEN CHOOSE k \in DOMAIN m : m[k] = i - 1
        ELSE v[i]]

\* every edge split_edges looks up is in the map
lookups_found(m, ls, ts) ==
    /\ \A i \in 1 .. Len(ls) : has_edge(m, ls[i])
    /\ \A i \in 1 .. Len(ts) : \A a, b \in 1 .. 3 :
          a # b => has_edge(m, <<ts[i][a], ts[i][b]>>)

\* split_edges, given what the three out vectors hold on entry
split_edges(n, ls, ts, tl, tt, ed) ==
    LET m == make_edge_map(ls, ts) IN
    [tess_lines |-> push_lines(clear(tl), n, m, ls),
     tess_triangles |-> push_triangles(clear(tt), n, m, ts),
     edges |-> store_edges(resize(ed, size(m)), m),
     found |-> lookups_found(m, ls, ts)]

\* the meshes split: at most SpMaxIndices indices over the vertices SpVerts
SpMeshes ==
    UNION {[1 .. nl -> SpVerts \X SpVerts]
              \X [1 .. nt -> SpVerts \X SpVerts \X SpVerts] :
           <<nl, nt>> \in {c \in (0 .. SpMaxIndices) \X (0 .. SpMaxIndices) :
                              2 * c[1] + 3 * c[2] <= SpMaxIndices}}

\* the vertex ids an element sequence uses
VertsOf(es) == UNION {{es[i][j] : j \in DOMAIN es[i]} : i \in DOMAIN es}

\* what the caller's out vectors hold before the call: stale entries
StaleLines == <<<<-7, -7>>>>
StaleTriangles == <<<<-7, -7, -7>>>>
StaleEdges == <<<<-7, -7>>, <<-7, -7>>>>

\* a mesh of n vertices, every vertex id below n, and the out vectors stale
SpInit ==
    /\ EmNew
    /\ \E mesh \in SpMeshes :
          /\ lines = mesh[1]
          /\ triangles = mesh[2]
          /\ nverts \in {n \in 1 .. SpMaxVert + 1 :
                            \A v \in VertsOf(mesh[1]) \cup VertsOf(mesh[2]) : v < n}
    /\ tess_lines = StaleLines
    /\ tess_triangles = StaleTriangles
    /\ tess_edges = StaleEdges
    /\ sp_pc = "input"
    /\ TessNone
    /\ CdfNone
    /\ SampleNone
    /\ sm_pc = "idle"

\* a call of split_edges(nverts, lines, triangles, tess_lines, tess_triangles,
\* tess_edges); a lookup of a missing edge aborts the call when assertions are
\* compiled in
SplitEdges ==
    /\ sp_pc = "input"
    /\ \E r \in {split_edges(nverts, lines, triangles,
                             tess_lines, tess_triangles, tess_edges)} :
       \E ndebug \in BOOLEAN :
        /\ tess_lines' = r.tess_lines
        /\ tess_triangles' = r.tess_triangles
        /\ tess_edges' = r.edges
        /\ sp_pc' = IF r.found \/ ndebug THEN "done" ELSE "assert"
    /\ UNCHANGED <<interpVars, emVars, meshVars, tessVars, cdfVars, sampleVars>>

SpNext == SplitEdges

SpecSplit == SpInit /\ [][SpNext]_vars

-----------------------------------------------------------------------------
(* Claims about split_edges, checked under SpecSplit.  The numbering of the *)
(* edges is restated here from the order of the elements alone, without the *)
(* edge_map.                                                                *)

\* the consecutive corner pairs of the triangles, wrapping, in order
TriPairs(ts) ==
    [i \in 1 .. 3 * Len(ts) |->
        LET t == ts[((i - 1) \div 3) + 1]
            j == (i - 1) % 3
        IN  <<t[j + 1], t[((j + 1) % 3) + 1]>>]

\* every edge of the mesh, lines first, in input order
MeshEdges == lines \o TriPairs(triangles)

\* the number e of distinct undirected edges among es
NumEdges(es) == Cardinality({Ends(es[i]) : i \in 1 .. Len(es)})

\* where the undirected edge u first occurs in es
FirstAt(es, u) ==
    CHOOSE i \in 1 .. Len(es) :
        /\ Ends(es[i]) = u
        /\ \A j \in 1 .. i - 1 : Ends(es[j]) # u

\* the id of edge (a,b): the number of distinct edges of es that occur before it
Id(es, a, b) == Cardinality({Ends(es[j]) : j \in 1 .. FirstAt(es, {a, b}) - 1})

\* the vertex ids the tessellated elements use
TessVerts == VertsOf(tess_lines) \cup VertsOf(tess_triangles)

\* C3: the vertex ids >= n used by tess_lines and tess_triangles are exactly
\* n .. n+e-1 for a mesh of n vertices and e distinct undirected edges, and
\* edges has e entries.
C3_NewVertexRange ==
    sp_pc # "input" =>
        LET e == NumEdges(MeshEdges)
            used == TessVerts
        IN  /\ sp_pc = "done"
            /\ {v \in used : v >= nverts} = nverts .. (nverts + e - 1)
            /\ used \subseteq 0 .. (nverts + e - 1)
            /\ Len(tess_edges) = e

\* C3 witness: a line and a triangle that share an edge, three edges in all
C3_Witness ==
    /\ sp_pc = "done"
    /\ lines = <<<<1, 0>>>>
    /\ triangles = <<<<0, 1, 2>>>>
    /\ nverts = 3
    /\ Len(tess_edges) = 3
    /\ {v \in TessVerts : v >= nverts} = {3, 4, 5}

\* C4: triangle k (from 0) yields, at positions 4k .. 4k+3, its three corner
\* triangles (v_i, n+id(v_i,v_i+1), n+id(v_i,v_i+2)) and then the center
\* triangle (n+id(v0,v1), n+id(v1,v2), n+id(v2,v0)); the single triangle
\* (0,1,2) with n = 3 yields the output of the spec's scenario.
C4_TriangleSplit ==
    sp_pc # "input" =>
        /\ \A k \in 0 .. Len(triangles) - 1 :
            LET t == triangles[k + 1]
                n == nverts
                es == MeshEdges
            IN  /\ 4 * k + 4 <= Len(tess_triangles)
                /\ \A i \in 0 .. 2 :
                      tess_triangles[4 * k + i + 1] =
                          <<t[i + 1],
                            n + Id(es, t[i + 1], t[((i + 1) % 3) + 1]),
                            n + Id(es, t[i + 1], t[((i + 2) % 3) + 1])>>
                /\ tess_triangles[4 * k + 4] =
                      <<n + Id(es, t[1], t[2]), n + Id(es, t[2], t[3]),
                        n + Id(es, t[3], t[1])>>
        /\ (nverts = 3 /\ triangles = <<<<0, 1, 2>>>> /\ lines = <<>>) =>
              /\ tess_edges = <<<<0, 1>>, <<1, 2>>, <<0, 2>>>>
              /\ tess_triangles = <<<<0, 3, 5>>, <<1, 4, 3>>, <<2, 5, 4>>, <<3, 4, 5>>>>
              /\ tess_lines = <<>>

\* C4 witness: the spec's scenario, split
C4_Witness ==
    /\ sp_pc = "done"
    /\ nverts = 3
    /\ triangles = <<<<0, 1, 2>>>>
    /\ lines = <<>>
    /\ Len(tess_triangles) = 4

\* C5: line k (from 0) yields (a, n+id(a,b)) and (n+id(a,b), b) at positions
\* 2k and 2k+1; the out vectors hold the children only, whatever they held.
C5_LineSplit ==
    sp_pc # "input" =>
        /\ Len(tess_lines) = 2 * Len(lines)
        /\ Len(tess_triangles) = 4 * Len(triangles)
        /\ \A k \in 0 .. Len(lines) - 1 :
            LET l == lines[k + 1]
                mid == nverts + Id(MeshEdges, l[1], l[2])
            IN  /\ tess_lines[2 * k + 1] = <<l[1], mid>>
                /\ tess_lines[2 * k + 2] = <<mid, l[2]>>
        /\ \A i \in 1 .. Len(tess_lines) :
              \E j \in 1 .. 2 : tess_lines[i][j] >= nverts
        /\ \A i \in 1 .. Len(tess_triangles) :
              \E j \in 1 .. 3 : tess_triangles[i][j] >= nverts

\* C5 witness: two lines over the same edge, in both directions, split
C5_Witness ==
    /\ sp_pc = "done"
    /\ lines = <<<<0, 1>>, <<1, 0>>>>
    /\ tess_lines = <<<<0, nverts>>, <<nverts, 1>>, <<1, nverts>>, <<nverts, 0>>>>

\* C6: edges is indexed by edge id: edges[id] is the edge with that id, the
\* smaller endpoint first, every slot is written, and the midpoint n+id of an
\* element lies on edges[id].
C6_EdgesById ==
    sp_pc # "input" =>
        /\ Len(tess_edges) = NumEdges(MeshEdges)
        /\ LET es == MeshEdges IN
            \A i \in 1 .. Len(es) :
                LET a == es[i][1]
                    b == es[i][2]
                    id == Id(es, a, b)
                IN  /\ id + 1 \in 1 .. Len(tess_edges)
                    /\ tess_edges[id + 1] = <<min(a, b), max(a, b)>>
        /\ \A k \in 1 .. Len(lines) :
              /\ tess_lines[2 * k - 1][2] - nverts + 1 \in 1 .. Len(tess_edges)
              /\ Ends(tess_edges[tess_lines[2 * k - 1][2] - nverts + 1]) = Ends(lines[k])
        /\ \A k \in 1 .. Len(triangles) :
              /\ tess_triangles[4 * k][1] - nverts + 1 \in 1 .. Len(tess_edges)
              /\ Ends(tess_edges[tess_triangles[4 * k][1] - nverts + 1])
                    = {triangles[k][1], triangles[k][2]}

\* C6 witness: an edge first met reversed is returned with its smaller end first
C6_Witness ==
    /\ sp_pc = "done"
    /\ triangles = <<<<2, 1, 0>>>>
    /\ tess_edges = <<<<1, 2>>, <<0, 1>>, <<0, 2>>>>

\* C17: for every mesh (any orientation, edges shared between elements,
\* elements repeated) every edge split_edges looks up was inserted by
\* make_edge_map: the assertion of operator[] never fails, and no vertex
\* that split_edges adds has the id n-1 of a missing edge; every one is n or
\* above.
C17_LookupsFound ==
    /\ sp_pc # "assert"
    /\ sp_pc = "done" =>
          /\ \A i \in 1 .. Len(lines) :
                /\ tess_lines[2 * i - 1][2] >= nverts
                /\ tess_lines[2 * i][1] >= nverts
          /\ \A i \in 1 .. Len(triangles) :
                /\ \A c \in 1 .. 3 :
                      /\ tess_triangles[4 * i - 4 + c][2] >= nverts
                      /\ tess_triangles[4 * i - 4 + c][3] >= nverts
                /\ \A j \in 1 .. 3 : tess_triangles[4 * i][j] >= nverts

\* a line that is an edge of the triangle, in the other orientation
C17_Witness ==
    /\ sp_pc = "done"
    /\ nverts = 3
    /\ lines = <<<<1, 0>>>>
    /\ triangles = <<<<0, 1, 2>>>>
    /\ tess_lines = <<<<1, 3>>, <<3, 0>>>>
    /\ tess_triangles[4] = <<3, 4, 5>>

-----------------------------------------------------------------------------
(* tesselate_stdshape.  A vertex attribute (vec3f, vec2f or float) is        *)
(* modelled by one float component: the code treats every component alike.  *)

\* vertex ids of the shapes tessellated are 0 .. TsMaxVert
TsMaxVert == 2
\* a shape tessellated starts with at most TsMaxIndices vertex indices in its
\* lines (two each) and triangles (three each) together
TsMaxIndices == 3
\* at most TsMaxRounds successive calls of tesselate_stdshape are made
TsMaxRounds == 2

TsVerts == 0 .. TsMaxVert
Attrs == {"pos", "norm", "texcoord", "color", "radius"}

\* ym::length of a one-component vector
length1(x) == IF x[1] < 0 THEN FNeg(x) ELSE x

\* ym::normalize: a vector of length zero is returned as it is
normalize(x) ==
    LET l == length1(x) IN IF FEq(l, F(0)) THEN x ELSE FMul(x, FDiv(F(1), l))

\* vector<T>::resize on an attribute array: new entries value-initialised
resize_attr(v, k) == [i \in 1 .. k |-> IF i <= Len(v) THEN v[i] ELSE F(0)]

\* v[i] for a 0-based i; a read past the end of the vector is undefined
\* behaviour and yields whatever the memory holds, here junk
read(v, i, junk) == IF i + 1 \in 1 .. Len(v) THEN v[i + 1] ELSE junk

\* (v[e[0]] + v[e[1]]) / 2
average(v, e, junk) ==
    FDiv(FAdd(read(v, e[1], junk), read(v, e[2], junk)), F(2))

RECURSIVE interpolate(_, _, _, _, _)
\* the loop over tess_edges from j on, for one attribute array:
\* if (!v.empty()) v[nverts + j] = (v[e[0]] + v[e[1]]) / 2
interpolate(v, n, ed, j, junk) ==
    IF j >= Len(ed) THEN v
    ELSE interpolate(
            IF v # <<>> THEN [v EXCEPT ![n + j + 1] = average(v, ed[j + 1], junk)]
            ELSE v,
            n, ed, j + 1, junk)

\* what tesselate_stdshape does to one attribute array:
\* if (!v.empty()) v.resize(nverts + tess_edges.size()), then the loop
tess_attr(v, n, ed, junk) ==
    interpolate(IF v # <<>> THEN resize_attr(v, n + Len(ed)) ELSE v, n, ed, 0, junk)

\* for (auto& n : norm) n = normalize(n)
fix_normals(v) == [i \in 1 .. Len(v) |-> normalize(v[i])]

\* a plausible slip: the number of vertices is not offset into the new ids
nverts_zero(p) == 0

\* auto nverts = (int)pos.size()
nverts_of(p) == Len(p)

\* tesselate_stdshape, in place on the seven arrays
tesselate_stdshape(ls, ts, p, nm, tc, c, r, junk) ==
    LET n == nverts_of(p)
        s == split_edges(n, ls, ts, <<>>, <<>>, <<>>)
    IN  [lines |-> s.tess_lines,
         triangles |-> s.tess_triangles,
         pos |-> tess_attr(p, n, s.edges, junk),
         norm |-> fix_normals(tess_attr(nm, n, s.edges, junk)),
         texcoord |-> tess_attr(tc, n, s.edges, junk),
         color |-> tess_attr(c, n, s.edges, junk),
         radius |-> tess_attr(r, n, s.edges, junk),
         found |-> s.found]

\* the shapes tessellated: at most TsMaxIndices indices over TsVerts
TsMeshes ==
    UNION {[1 .. nl -> TsVerts \X TsVerts]
              \X [1 .. nt -> TsVerts \X TsVerts \X TsVerts] :
           <<nl, nt>> \in {c \in (0 .. TsMaxIndices) \X (0 .. TsMaxIndices) :
                              2 * c[1] + 3 * c[2] <= TsMaxIndices}}

\* the values an attribute array of n vertices starts with
TsArray(a, n) ==
    [i \in 1 .. n |->
        CASE a = "pos" -> F(8 * i)
          [] a = "norm" -> F(IF i % 2 = 0 THEN -1 ELSE 1)
          [] a = "texcoord" -> Frac(i, 4)
          [] a = "color" -> F(i)
          [] a = "radius" -> Frac(1, i)]

\* what an out-of-bounds read may yield
TsJunk == {F(-3), NaN}

\* a shape of vcount vertices, every vertex id below vcount, with any subset
\* of the attribute arrays filled, one entry per vertex
TsInit ==
    /\ EmNew
    /\ SplitNone
    /\ \E mesh \in TsMeshes :
          /\ lines = mesh[1]
          /\ triangles = mesh[2]
          /\ vcount \in {n \in 1 .. TsMaxVert + 1 :
                            \A v \in VertsOf(mesh[1]) \cup VertsOf(mesh[2]) : v < n}
    /\ nverts = 0
    /\ \E has \in SUBSET Attrs :
          /\ pos = IF "pos" \in has THEN TsArray("pos", vcount) ELSE <<>>
          /\ norm = IF "norm" \in has THEN TsArray("norm", vcount) ELSE <<>>
          /\ texcoord = IF "texcoord" \in has THEN TsArray("texcoord", vcount) ELSE <<>>
          /\ color = IF "color" \in has THEN TsArray("color", vcount) ELSE <<>>
          /\ radius = IF "radius" \in has THEN TsArray("radius", vcount) ELSE <<>>
    /\ ts_pc = "input"
    /\ ts_pre = [n |-> 0, lines |-> <<>>, triangles |-> <<>>, has |-> {}]
    /\ ts_round = 0
    /\ CdfNone
    /\ SampleNone
    /\ sm_pc = "idle"

\* the attribute arrays that are not empty
NonEmptyAttrs ==
    {a \in Attrs :
        CASE a = "pos" -> pos # <<>>
          [] a = "norm" -> norm # <<>>
          [] a = "texcoord" -> texcoord # <<>>
          [] a = "color" -> color # <<>>
          [] a = "radius" -> radius # <<>>}

\* a call of tesselate_stdshape(lines, triangles, pos, norm, texcoord, color,
\* radius); a lookup of a missing edge aborts the call when assertions are
\* compiled in
Tesselate ==
    /\ ts_pc \in {"input", "done"}
    /\ ts_round < TsMaxRounds
    /\ \E junk \in TsJunk :
       \E t \in {tesselate_stdshape(lines, triangles, pos, norm, texcoord,
                                    color, radius, junk)} :
       \E ndebug \in BOOLEAN :
          /\ lines' = t.lines
          /\ triangles' = t.triangles
          /\ pos' = t.pos
          /\ norm' = t.norm
          /\ texcoord' = t.texcoord
          /\ color' = t.color
          /\ radius' = t.radius
          /\ ts_pc' = IF t.found \/ ndebug THEN "done" ELSE "assert"
    /\ ts_pre' = [n |-> vcount, lines |-> lines, triangles |-> triangles,
                  has |-> NonEmptyAttrs]
    /\ vcount' = vcount + NumEdges(MeshEdges)
    /\ ts_round' = ts_round + 1
    /\ UNCHANGED <<interpVars, emVars, nverts, splitVars, cdfVars, sampleVars>>

TsNext == Tesselate

SpecTess == TsInit /\ [][TsNext]_vars

-----------------------------------------------------------------------------
(* Claims about tesselate_stdshape, checked under SpecTess. *)

\* the length of attribute array a
AttrLen(a) ==
    CASE a = "pos" -> Len(pos)
      [] a = "norm" -> Len(norm)
      [] a = "texcoord" -> Len(texcoord)
      [] a = "color" -> Len(color)
      [] a = "radius" -> Len(radius)

\* C7: after tesselate_stdshape on a mesh of n vertices and e distinct edges,
\* every attribute array that was not empty has length n+e, every array that
\* was empty is empty, and lines and triangles are the output of split_edges
\* for (n, lines, triangles); for every subset of non-empty arrays, pos
\* empty included.
C7_TessLengths ==
    ts_pc = "done" =>
        LET n == ts_pre.n
            e == NumEdges(ts_pre.lines \o TriPairs(ts_pre.triangles))
            s == split_edges(n, ts_pre.lines, ts_pre.triangles, <<>>, <<>>, <<>>)
        IN  /\ \A a \in Attrs :
                  AttrLen(a) = IF a \in ts_pre.has THEN n + e ELSE 0
            /\ lines = s.tess_lines
            /\ triangles = s.tess_triangles

\* the step is a call of tesselate_stdshape
TessStep == ts_round' = ts_round + 1

\* the first Len(a) entries of b are those of a
KeptIn(a, b) == Len(b) >= Len(a) /\ \A i \in 1 .. Len(a) : b[i] = a[i]

\* C19: from a mesh whose pos is not empty and whose vertex ids are all
\* below |pos|, after any number of tesselate_stdshape calls every vertex id
\* of lines and triangles is in [0, |pos|), every attribute array that is not
\* empty is as long as pos, and every call leaves the entries that pos,
\* texcoord, color and radius had before it as they were.
C19_ValidityKept ==
    /\ [](pos # <<>> =>
            /\ \A v \in VertsOf(lines) \cup VertsOf(triangles) :
                  v >= 0 /\ v < Len(pos)
            /\ \A a \in Attrs : AttrLen(a) \in {0, Len(pos)})
    /\ [][(TessStep /\ pos # <<>>) =>
            /\ KeptIn(pos, pos')
            /\ KeptIn(texcoord, texcoord')
            /\ KeptIn(color, color')
            /\ KeptIn(radius, radius')]_vars

\* two calls on a mesh with positions and colors: one line has become four
C19_Witness ==
    /\ ts_pc = "done"
    /\ ts_round = 2
    /\ Len(lines) = 4
    /\ triangles = <<>>
    /\ Len(pos) = 5
    /\ Len(color) = 5
    /\ norm = <<>>

-----------------------------------------------------------------------------
(* sample_shape_cdf.  Here pos holds vec3f positions <<x, y, z>> with        *)
(* integer components; they are chosen so that every length taken is an     *)
(* integer (sqrt is taken of perfect squares only).                          *)

\* the shape has at most CdfMaxPoints points, CdfMaxLines lines or
\* CdfMaxTriangles triangles
CdfMaxPoints == 3
CdfMaxLines == 3
CdfMaxTriangles == 3

\* the positions of the shape's three vertices: a 3-4-5 triangle, or two
\* vertices in one place
CdfPositions ==
    {<<<<0, 0, 0>>, <<3, 0, 0>>, <<0, 4, 0>>>>,
     <<<<0, 0, 0>>, <<0, 0, 0>>, <<3, 4, 0>>>>}

CdfVerts == 0 .. 2

\* ym: a - b, cross(a, b), dot(a, b) on vec3f
vsub(a, b) == <<a[1] - b[1], a[2] - b[2], a[3] - b[3]>>
cross(a, b) ==
    <<a[2] * b[3] - a[3] * b[2], a[3] * b[1] - a[1] * b[3], a[1] * b[2] - a[2] * b[1]>>
dot(a, b) == a[1] * b[1] + a[2] * b[2] + a[3] * b[3]

\* sqrt of a perfect square
ISqrt(n) == CHOOSE r \in 0 .. n : r * r = n

\* ym::length
length(a) == F(ISqrt(dot(a, a)))

\* the raw weight of point i: cdf[i] = 1
point_weight(p, f) == F(1)

\* the raw weight of a line: length(pos[f[0]] - pos[f[1]])
line_weight(p, f) == length(vsub(p[f[1] + 1], p[f[2] + 1]))

\* the raw weight of a triangle:
\* length(cross(pos[f[0]] - pos[f[1]], pos[f[0]] - pos[f[2]])) / 2
triangle_weight(p, f) ==
    FDiv(length(cross(vsub(p[f[1] + 1], p[f[2] + 1]), vsub(p[f[1] + 1], p[f[3] + 1]))),
         F(2))

\* array_view::back; on an empty view the read is undefined behaviour and
\* yields whatever the memory holds, here junk
back(c, junk) == IF c = <<>> THEN junk ELSE c[Len(c)]

RECURSIVE accumulate(_, _)
\* for (i = 1; i < elems.size(); i++) cdf[i] += cdf[i - 1], from i on
accumulate(c, i) ==
    IF i >= Len(c) THEN c
    ELSE accumulate([c EXCEPT ![i + 1] = FAdd(c[i + 1], c[i])], i + 1)

\* a plausible slip: the total is read once, after the last entry was divided
RECURSIVE divide_from_back(_, _, _)
divide_from_back(c, i, junk) ==
    IF i >= Len(c) THEN c
    ELSE divide_from_back(
            [c EXCEPT ![Len(c) - i] = FDiv(c[Len(c) - i], back(c, junk))], i + 1, junk)

RECURSIVE divide(_, _, _)
\* for (i = 0; i < elems.size(); i++) cdf[i] /= cdf.back(), from i on;
\* cdf.back() is read again in every round
divide(c, i, junk) ==
    IF i >= Len(c) THEN c
    ELSE divide([c EXCEPT ![i + 1] = FDiv(c[i + 1], back(c, junk))], i + 1, junk)

\* the three loops of a sample_shape_cdf overload, given the raw weights ws
\* of the elements; the view cdf has one entry per element
build_cdf(ws, junk) ==
    LET sums == accumulate(ws, 1) IN
    [cdf |-> divide(sums, 0, junk), weight |-> back(sums, junk)]

\* sample_shape_cdf(points, pos, cdf, weight)
cdf_points(es, p, junk) ==
    build_cdf([i \in 1 .. Len(es) |-> point_weight(p, es[i])], junk)

\* sample_shape_cdf(lines, pos, cdf, weight)
cdf_lines(es, p, junk) ==
    build_cdf([i \in 1 .. Len(es) |-> line_weight(p, es[i])], junk)

\* sample_shape_cdf(triangles, pos, cdf, weight)
cdf_triangles(es, p, junk) ==
    build_cdf([i \in 1 .. Len(es) |-> triangle_weight(p, es[i])], junk)

\* sample_shape_cdf(points, lines, triangles, pos, cdf, weight): the first
\* array that is not empty decides; with all three empty assert(false)
\* fails, and with NDEBUG the call returns with cdf and weight as they were
sample_shape_cdf(ps, ls, ts, p, c, w, junk) ==
    IF ps # <<>> THEN [asserted |-> FALSE] @@ cdf_points(ps, p, junk)
    ELSE IF ls # <<>> THEN [asserted |-> FALSE] @@ cdf_lines(ls, p, junk)
    ELSE IF ts # <<>> THEN [asserted |-> FALSE] @@ cdf_triangles(ts, p, junk)
    ELSE [asserted |-> TRUE, cdf |-> c, weight |-> w]

\* what an out-of-bounds read of a float may yield
CdfJunk == {F(-3), NaN}

\* the lines and triangles a shape is made of: every length among 0, 3, 4
\* and 5 and every area among 0 and 6 occurs
CdfLineSet == {<<0, 1>>, <<1, 2>>, <<2, 0>>, <<0, 0>>}
CdfTriangleSet == {<<0, 1, 2>>, <<2, 1, 0>>, <<0, 0, 1>>, <<2, 2, 2>>}

\* the element arrays of a shape: one kind of element, or none
CdfShapes ==
    {<<ps, <<>>, <<>>>> : ps \in SeqUpTo(CdfVerts, CdfMaxPoints)}
    \cup {<<<<>>, ls, <<>>>> : ls \in SeqUpTo(CdfLineSet, CdfMaxLines)}
    \cup {<<<<>>, <<>>, ts>> : ts \in SeqUpTo(CdfTriangleSet, CdfMaxTriangles)}

\* what the cdf view holds before the call: n stale entries
StaleCdf(n) == [i \in 1 .. n |-> F(-7)]

\* a shape of one element kind (or none) over three vertices, and a cdf view
\* of one entry per element
CdfInit ==
    /\ EmNew
    /\ SplitNone
    /\ TessIdle
    /\ SampleNone
    /\ nverts = 0
    /\ pos \in CdfPositions
    /\ \E shape \in CdfShapes :
          /\ points = shape[1]
          /\ lines = shape[2]
          /\ triangles = shape[3]
          /\ cdf = StaleCdf(Len(shape[1]) + Len(shape[2]) + Len(shape[3]))
    /\ weight = F(-7)
    /\ sm_pc = "input"

\* a call of sample_shape_cdf(points, lines, triangles, pos, cdf, weight)
BuildCdf ==
    /\ sm_pc = "input"
    /\ \E junk \in CdfJunk :
       \E r \in {sample_shape_cdf(points, lines, triangles, pos, cdf, weight, junk)} :
       \E ndebug \in BOOLEAN :
          /\ cdf' = r.cdf
          /\ weight' = r.weight
          /\ sm_pc' = IF r.asserted /\ ~ndebug THEN "assert" ELSE "built"
    /\ UNCHANGED <<interpVars, emVars, meshVars, splitVars, tessVars, points, sampleVarsButPc>>

-----------------------------------------------------------------------------
(* sample_shape and _bsearch_smaller.  The search is modelled one loop round *)
(* at a time: low and high are the locals of _bsearch_smaller.               *)

\* the longest cdf handed to sample_shape by a caller
BsMaxLen == 3

\* a plausible slip: the square root left out
sqrt_dropped(x) == x

\* sqrtf, on fractions of perfect squares
FSqrt(x) ==
    IF IsNaN(x) \/ x[1] < 0 THEN NaN
    ELSE IF x[2] = 0 THEN x
    ELSE Frac(ISqrt(x[1]), ISqrt(x[2]))

\* a plausible slip: <= for <
smaller_or_equal(a, x) == FLeq(a, x)

\* the test of _bsearch_smaller: a[mid] < x
smaller(a, x) == FLess(a, x)

\* a plausible slip: low = mid for low = mid + 1
bsearch_round_stuck(x, a, lo, hi) ==
    LET mid == (lo + hi) \div 2 IN
    IF smaller(a[mid + 1], x) THEN <<mid, hi>> ELSE <<lo, mid>>

\* one round of the loop of _bsearch_smaller(x, a, n) from <<lo, hi>>
bsearch_round(x, a, lo, hi) ==
    LET mid == (lo + hi) \div 2 IN
    IF smaller(a[mid + 1], x) THEN <<mid + 1, hi>> ELSE <<lo, mid>>

\* what each overload of sample_shape stores in euv: nothing for points,
\* uvrn for lines (a float, the first component here), the warped pair for
\* triangles
sample_euv(kind, uv, old) ==
    CASE kind = "points" -> old
      [] kind = "lines" -> <<uv[1], old[2]>>
      [] kind = "triangles" ->
            <<FSub(F(1), FSqrt(uv[1])), FMul(uv[2], FSqrt(uv[1]))>>

\* what sample_shape(point_cdf, line_cdf, triangle_cdf, ...) leaves in euv:
\* uvrn after the points overload, euv[0] from the lines overload and
\* euv[1] = uvrn[1], the triangle overload's pair
shape_euv(kind, uv, old) ==
    CASE kind = "points" -> uv
      [] kind = "lines" -> <<sample_euv(kind, uv, old)[1], uv[2]>>
      [] kind = "triangles" -> sample_euv(kind, uv, old)

\* the overloads of sample_shape
SampleKinds == {"points", "lines", "triangles"}

\* the draws ern in [0, 1), and those a caller may hand in beyond it
ErnUnit == {F(0), Frac(1, 4), Frac(1, 2), Frac(3, 4), Frac(99, 100)}
ErnAny == ErnUnit \cup {F(1), Frac(5, 4)}

\* the draws uvrn
UvDraws ==
    {<<F(0), F(0)>>, <<Frac(1, 4), Frac(1, 2)>>, <<Frac(9, 16), Frac(3, 4)>>,
     <<Frac(1, 4), F(0)>>}

\* sample_shape(cdf, ern, ...) is entered: _bsearch_smaller starts with
\* low = 0, high = n
SampleCall(kinds, erns) ==
    /\ sm_pc = "built"
    /\ \E kind \in kinds, x \in erns, uv \in UvDraws :
          /\ sm_kind' = kind
          /\ ern' = x
          /\ uvrn' = uv
    /\ low' = 0
    /\ high' = Len(cdf)
    /\ sm_pc' = "search"
    /\ sm_entry' = "overload"
    /\ UNCHANGED <<interpVars, emVars, meshVars, splitVars, tessVars, cdfVars, eid, euv>>

\* while (low != high): one round
BsearchStep ==
    /\ sm_pc = "search"
    /\ low # high
    /\ \E r \in {bsearch_round(ern, cdf, low, high)} :
          /\ low' = r[1]
          /\ high' = r[2]
    /\ UNCHANGED <<interpVars, emVars, meshVars, splitVars, tessVars, cdfVars,
                   ern, uvrn, eid, euv, sm_kind, sm_pc, sm_entry>>

\* low == high: _bsearch_smaller returns low, sample_shape stores eid and euv
SampleReturn ==
    /\ sm_pc = "search"
    /\ low = high
    /\ eid' = low
    /\ euv' = IF sm_entry = "shape" THEN shape_euv(sm_kind, uvrn, euv)
              ELSE sample_euv(sm_kind, uvrn, euv)
    /\ sm_pc' = "done"
    /\ UNCHANGED <<interpVars, emVars, meshVars, splitVars, tessVars, cdfVars,
                   ern, uvrn, sm_kind, low, high, sm_entry>>

\* the overload that goes with the shape's elements
ShapeKinds ==
    IF points # <<>> THEN {"points"}
    ELSE IF lines # <<>> THEN {"lines"}
    ELSE IF triangles # <<>> THEN {"triangles"}
    ELSE SampleKinds

\* the shape's cdf is sampled with a draw in [0, 1)
SampleBuilt == SampleCall(ShapeKinds, ErnUnit)

\* the overload of sample_shape_cdf for one kind of element
cdf_overload(kind, ps, ls, ts, p, junk) ==
    CASE kind = "points" -> cdf_points(ps, p, junk)
      [] kind = "lines" -> cdf_lines(ls, p, junk)
      [] kind = "triangles" -> cdf_triangles(ts, p, junk)

\* a call of the sample_shape_cdf overload that goes with the shape's
\* elements, elems possibly empty: cdf.back() then reads past the view
BuildCdfOverload ==
    /\ sm_pc = "input"
    /\ \E kind \in ShapeKinds, junk \in CdfJunk :
       \E r \in {cdf_overload(kind, points, lines, triangles, pos, junk)} :
          /\ cdf' = r.cdf
          /\ weight' = r.weight
    /\ sm_pc' = "built"
    /\ UNCHANGED <<interpVars, emVars, meshVars, splitVars, tessVars, points,
                   sampleVarsButPc>>

CdfNext == BuildCdf \/ BuildCdfOverload \/ SampleBuilt \/ BsearchStep \/ SampleReturn

SpecCdf == CdfInit /\ [][CdfNext]_vars

\* the entries of the cdfs a caller hands to sample_shape: sorted or not
BsCdfVals == {F(0), Frac(1, 4), Frac(1, 2), F(1), NaN}

\* any cdf view, built by the caller
BsInit ==
    /\ EmNew
    /\ MeshNone
    /\ SplitNone
    /\ TessNone
    /\ SampleNone
    /\ points = <<>>
    /\ cdf \in SeqUpTo(BsCdfVals, BsMaxLen)
    /\ weight = F(0)
    /\ sm_pc = "built"

\* any overload of sample_shape is called with any ern
SampleAny == SampleCall(SampleKinds, ErnAny)

BsNext == SampleAny \/ BsearchStep \/ SampleReturn

SpecSearch == BsInit /\ [][BsNext]_vars

\* the cdfs and draws of the runs checked for termination
BsFairVals == {F(0), Frac(1, 2), F(1), NaN}
ErnFair == {F(0), Frac(1, 2), Frac(99, 100), Frac(5, 4)}

BsFairInit == BsInit /\ cdf \in SeqUpTo(BsFairVals, BsMaxLen)

SampleFair == SampleCall(SampleKinds, ErnFair)

BsFairNext == SampleFair \/ BsearchStep \/ SampleReturn

\* a call of sample_shape that has been entered runs on: the loop takes its
\* next round and the call returns
SpecSearchFair ==
    BsFairInit /\ [][BsFairNext]_vars /\ WF_vars(BsearchStep) /\ WF_vars(SampleReturn)

-----------------------------------------------------------------------------
(* The three-array entry points: sample_shape over point_cdf, line_cdf and  *)
(* triangle_cdf, and interpolate_vert, with T = float.                       *)

\* every element array of the shape has at most ShMaxLen elements
ShMaxLen == 2

\* the elements the arrays are filled from, in turn
ShPoints == <<2, 0, 1>>
ShLines == <<<<0, 1>>, <<1, 2>>, <<2, 2>>>>
ShTriangles == <<<<0, 1, 2>>, <<2, 1, 0>>, <<1, 1, 2>>>>

\* the first k elements of s, s repeated when k is beyond its end
Filled(s, k) == [i \in 1 .. k |-> s[((i - 1) % Len(s)) + 1]]

\* the cdf of k elements of one weight each
UniformCdf(k) == [i \in 1 .. k |-> Frac(i, k)]

\* the vertex property interpolated
ShVert == <<F(1), F(2), F(4)>>

\* the coordinates a caller hands to interpolate_vert itself
IvCoords == {<<F(0), F(0)>>, <<F(1), F(0)>>, <<F(0), F(1)>>, <<Frac(1, 4), Frac(1, 2)>>}

\* what an out-of-bounds read may yield
IvJunk == {F(-3), NaN}

\* vert[i]; out of bounds the read is undefined behaviour
vert_at(v, i, junk) == IF i \in 0 .. Len(v) - 1 THEN v[i + 1] ELSE junk

\* vert[points[eid]]
interp_point(ps, v, id, junk) ==
    IF id \in 0 .. Len(ps) - 1 THEN vert_at(v, ps[id + 1], junk) ELSE junk

\* vert[lines[eid][0]] * (1 - euv[0]) + vert[lines[eid][1]] * euv[1]
interp_line(ls, v, id, uv, junk) ==
    IF id \in 0 .. Len(ls) - 1
    THEN FAdd(FMul(vert_at(v, ls[id + 1][1], junk), FSub(F(1), uv[1])),
              FMul(vert_at(v, ls[id + 1][2], junk), uv[2]))
    ELSE junk

\* a plausible slip: euv[0] and euv[1] exchanged
interp_triangle_swapped(ts, v, id, uv, junk) ==
    IF id \in 0 .. Len(ts) - 1
    THEN FAdd(FAdd(FMul(vert_at(v, ts[id + 1][1], junk),
                        FSub(FSub(F(1), uv[1]), uv[2])),
                   FMul(vert_at(v, ts[id + 1][2], junk), uv[2])),
              FMul(vert_at(v, ts[id + 1][3], junk), uv[1]))
    ELSE junk

\* vert[triangles[eid][0]] * (1 - euv[0] - euv[1]) +
\* vert[triangles[eid][1]] * euv[0] + vert[triangles[eid][2]] * euv[1]
interp_triangle(ts, v, id, uv, junk) ==
    IF id \in 0 .. Len(ts) - 1
    THEN FAdd(FAdd(FMul(vert_at(v, ts[id + 1][1], junk),
                        FSub(FSub(F(1), uv[1]), uv[2])),
                   FMul(vert_at(v, ts[id + 1][2], junk), uv[1])),
              FMul(vert_at(v, ts[id + 1][3], junk), uv[2]))
    ELSE junk

\* interpolate_vert(points, lines, triangles, vert, eid, euv): the first
\* array that is not empty decides; with all three empty assert(false)
\* fails, and with NDEBUG the call returns T()
interpolate_vert(ps, ls, ts, v, id, uv, junk) ==
    IF ps # <<>> THEN [asserted |-> FALSE, val |-> interp_point(ps, v, id, junk)]
    ELSE IF ls # <<>> THEN [asserted |-> FALSE, val |-> interp_line(ls, v, id, uv, junk)]
    ELSE IF ts # <<>>
         THEN [asserted |-> FALSE, val |-> interp_triangle(ts, v, id, uv, junk)]
    ELSE [asserted |-> TRUE, val |-> F(0)]

\* the interpolate_vert that runs: the three-array one or an overload
interpolate_call(kind, ps, ls, ts, v, id, uv, junk) ==
    CASE kind = "shape" -> interpolate_vert(ps, ls, ts, v, id, uv, junk)
      [] kind = "lines" -> [asserted |-> FALSE, val |-> interp_line(ls, v, id, uv, junk)]
      [] kind = "triangles" ->
            [asserted |-> FALSE, val |-> interp_triangle(ts, v, id, uv, junk)]

\* the entry points of interpolate_vert
InterpKinds == {"shape", "lines", "triangles"}

\* the cdf sample_shape(point_cdf, line_cdf, triangle_cdf, ...) searches
first_cdf(cs) ==
    IF cs[1] # <<>> THEN [kind |-> "points", cdf |-> cs[1], none |-> FALSE]
    ELSE IF cs[2] # <<>> THEN [kind |-> "lines", cdf |-> cs[2], none |-> FALSE]
    ELSE IF cs[3] # <<>> THEN [kind |-> "triangles", cdf |-> cs[3], none |-> FALSE]
    ELSE [kind |-> "points", cdf |-> <<>>, none |-> TRUE]

\* a shape of any mix of points, lines and triangles over three vertices,
\* a cdf per element array, and a property on the vertices
ShInit ==
    /\ EmNew
    /\ SplitNone
    /\ TessIdle
    /\ SampleIdle
    /\ nverts = 0
    /\ pos = <<<<0, 0, 0>>, <<3, 0, 0>>, <<0, 4, 0>>>>
    /\ \E np, nl, nt \in 0 .. ShMaxLen :
          /\ points = Filled(ShPoints, np)
          /\ lines = Filled(ShLines, nl)
          /\ triangles = Filled(ShTriangles, nt)
          /\ shape_cdfs = <<UniformCdf(np), UniformCdf(nl), UniformCdf(nt)>>
          /\ cdf = StaleCdf(IF np > 0 THEN np ELSE IF nl > 0 THEN nl ELSE nt)
    /\ weight = F(-7)
    /\ vert = ShVert
    /\ val = F(0)
    /\ iv_kind = "shape"
    /\ iv_pc = "idle"
    /\ sm_pc = "input"

\* a call of sample_shape(point_cdf, line_cdf, triangle_cdf, ern, uvrn, eid,
\* euv): the overload of the first cdf that is not empty is entered; with
\* all three empty assert(false) fails, and with NDEBUG the call returns
\* with eid and euv as they were
SampleShape ==
    /\ sm_pc = "built"
    /\ \E x \in ErnUnit, uv \in UvDraws, ndebug \in BOOLEAN :
       \E c \in {first_cdf(shape_cdfs)} :
          /\ ern' = x
          /\ uvrn' = uv
          /\ sm_kind' = c.kind
          /\ cdf' = c.cdf
          /\ high' = Len(c.cdf)
          /\ sm_pc' = IF ~c.none THEN "search" ELSE IF ndebug THEN "done" ELSE "assert"
    /\ low' = 0
    /\ sm_entry' = "shape"
    /\ UNCHANGED <<interpVars, emVars, meshVars, splitVars, tessVars, points, weight,
                   eid, euv>>

\* the caller names an element and a place in it without a draw
CallerReference ==
    /\ sm_pc = "built"
    /\ eid' \in 0 .. ShMaxLen - 1
    /\ euv' \in IvCoords
    /\ sm_entry' = "caller"
    /\ sm_pc' = "done"
    /\ UNCHANGED <<interpVars, emVars, meshVars, splitVars, tessVars, cdfVars,
                   ern, uvrn, sm_kind, low, high>>

\* a call of interpolate_vert on the element reference (eid, euv)
Interpolate ==
    /\ sm_pc = "done"
    /\ iv_pc = "idle"
    /\ \E kind \in InterpKinds, junk \in IvJunk, ndebug \in BOOLEAN :
       \E r \in {interpolate_call(kind, points, lines, triangles, vert, eid, euv, junk)} :
          /\ iv_kind' = kind
          /\ val' = r.val
          /\ iv_pc' = IF r.asserted /\ ~ndebug THEN "assert" ELSE "done"
    /\ UNCHANGED <<emVars, meshVars, splitVars, tessVars, cdfVars, sampleVars,
                   shape_cdfs, vert>>

ShNext ==
    BuildCdf \/ SampleShape \/ BsearchStep \/ SampleReturn \/ CallerReference
        \/ Interpolate

SpecShape == ShInit /\ [][ShNext]_vars

-----------------------------------------------------------------------------
(* Claims about sample_shape_cdf and sample_shape.  The weights and sums     *)
(* are restated here from the shape, without the loops of the code.         *)

\* the raw weights of the shape's elements: 1 per point, the length per line,
\* the area per triangle
RawWeights ==
    IF points # <<>> THEN [i \in 1 .. Len(points) |-> F(1)]
    ELSE IF lines # <<>> THEN [i \in 1 .. Len(lines) |-> line_weight(pos, lines[i])]
    ELSE [i \in 1 .. Len(triangles) |-> triangle_weight(pos, triangles[i])]

RECURSIVE FSum(_, _)
\* ws[1] + ... + ws[i]
FSum(ws, i) == IF i = 0 THEN F(0) ELSE FAdd(FSum(ws, i - 1), ws[i])

\* c[i] <= c[j] whenever i <= j; an entry that is NaN is in no order with
\* itself
NonDecreasing(c) == \A i, j \in 1 .. Len(c) : i <= j => FLeq(c[i], c[j])

\* C8: for a non-empty element array with raw weights w_0..w_{k-1},
\* sample_shape_cdf leaves cdf[i] = (w_0+...+w_i)/(w_0+...+w_{k-1}) for
\* every i, the cdf is non-decreasing and ends in 1, and weight is
\* w_0+...+w_{k-1}.
C8_CdfNormalized ==
    (sm_pc = "built" /\ RawWeights # <<>>) =>
        LET ws == RawWeights
            k == Len(ws)
            total == FSum(ws, k)
        IN  /\ Len(cdf) = k
            /\ \A i \in 1 .. k : FEq(cdf[i], FDiv(FSum(ws, i), total))
            /\ NonDecreasing(cdf)
            /\ FEq(cdf[k], F(1))
            /\ FEq(weight, total)

\* C16: sample_shape_cdf on zero elements, or on elements of total raw
\* weight zero, does not return normally but reports an error: a call that
\* returns had elements of non-zero total weight and leaves no NaN in cdf.
C16_EmptyDistribution ==
    sm_pc = "built" =>
        /\ RawWeights # <<>>
        /\ FSum(RawWeights, Len(RawWeights)) # F(0)
        /\ \A i \in 1 .. Len(cdf) : ~IsNaN(cdf[i])

\* the first index whose entry is >= x, by a scan from the left; Len(c)
\* when there is none
LinearScan(c, x) ==
    LET hits == {i \in 0 .. Len(c) - 1 : FLeq(x, c[i + 1])} IN
    IF hits = {} THEN Len(c)
    ELSE CHOOSE i \in hits : \A j \in hits : i <= j

NearOne(c, x) ==
    /\ FLess(x, F(1))
    /\ \A i \in 1 .. Len(c) : FLess(c[i], F(1)) => FLess(c[i], x)

\* the first index whose entry is not less than x
FirstNotLess(c, x) ==
    LET hits == {i \in 0 .. Len(c) - 1 : ~FLess(c[i + 1], x)} IN
    IF hits = {} THEN Len(c)
    ELSE CHOOSE i \in hits : \A j \in hits : i <= j

\* the index of the last element of non-zero weight
LastNonZero(ws) ==
    LET nz == {i \in 0 .. Len(ws) - 1 : ws[i + 1] # F(0)} IN
    CHOOSE i \in nz : \A j \in nz : j <= i

\* C10 as first stated, on the shapes of non-zero total weight: sampling the
\* cdf built from a non-empty element array with ern = 0 selects element 0,
\* and with an ern below 1 and above every entry less than 1 it selects the
\* last element, index k-1.
C10_LastElement ==
    (sm_pc = "done" /\ RawWeights # <<>> /\ FSum(RawWeights, Len(RawWeights)) # F(0)) =>
        /\ ern = F(0) => eid = 0
        /\ NearOne(cdf, ern) => eid = Len(cdf) - 1

\* C10: sampling the cdf built from a non-empty element array with ern = 0
\* selects element 0; with an ern below 1 and above every entry less than 1
\* it selects the first element whose entry is not less than ern, which is
\* index k-1 when the last element has non-zero weight and otherwise the
\* last element of non-zero weight, when there is one.
C10_LastWeighted ==
    (sm_pc = "done" /\ RawWeights # <<>>) =>
        LET ws == RawWeights
            k == Len(ws)
        IN  /\ ern = F(0) => eid = 0
            /\ NearOne(cdf, ern) =>
                  /\ eid = FirstNotLess(cdf, ern)
                  /\ ws[k] # F(0) => eid = k - 1
                  /\ (\E i \in 1 .. k : ws[i] # F(0)) => eid = LastNonZero(ws)

\* a line of length 3 followed by a line of length 0, sampled near 1: the
\* first line is selected
C10_Witness ==
    /\ sm_pc = "done"
    /\ lines = <<<<0, 1>>, <<0, 0>>>>
    /\ pos[2] = <<3, 0, 0>>
    /\ cdf = <<F(1), F(1)>>
    /\ ern = Frac(99, 100)
    /\ eid = 0

\* x lies in [0, 1]
InUnit(x) == FLeq(F(0), x) /\ FLeq(x, F(1))

\* C11: for every uniform draw (u, v) the triangle sampler returns
\* euv = (u', v') with u' = 1 - sqrt(u) and v' = v * sqrt(u), and the
\* barycentric weights (1 - u' - v', u', v') are each in [0, 1] and sum to 1.
C11_TriangleWarp ==
    (sm_pc = "done" /\ sm_kind = "triangles") =>
        LET u == uvrn[1]
            v == uvrn[2]
            root == FSub(F(1), euv[1])
            w0 == FSub(FSub(F(1), euv[1]), euv[2])
        IN  /\ FLeq(F(0), root)
            /\ FEq(FMul(root, root), u)
            /\ FEq(euv[2], FMul(v, root))
            /\ InUnit(w0)
            /\ InUnit(euv[1])
            /\ InUnit(euv[2])
            /\ FEq(FAdd(FAdd(w0, euv[1]), euv[2]), F(1))

\* the draw (9/16, 3/4) is warped to (1/4, 9/16), with weights 3/16, 1/4, 9/16
C11_Witness ==
    /\ sm_pc = "done"
    /\ sm_kind = "triangles"
    /\ uvrn = <<Frac(9, 16), Frac(3, 4)>>
    /\ euv = <<Frac(1, 4), Frac(9, 16)>>

-----------------------------------------------------------------------------
(* Claims about interpolate_vert and the three-array entry points, checked  *)
(* under SpecShape.                                                          *)

\* the property at vertex i
Attr(i) == vert[i + 1]

\* interpolate_vert has returned from its triangle overload, or from the
\* three-array one with only triangles filled, on a valid element id
TriangleInterpolated ==
    /\ iv_pc = "done"
    /\ \/ iv_kind = "triangles"
       \/ iv_kind = "shape" /\ points = <<>> /\ lines = <<>> /\ triangles # <<>>
    /\ eid \in 0 .. Len(triangles) - 1

\* C12: for a triangle (v0, v1, v2) and a valid element id, interpolate_vert
\* (the triangle overload, and the three-array one with only triangles
\* filled) returns w0*attr[v0] + w1*attr[v1] + w2*attr[v2] with
\* w0 = 1-u-v, w1 = u, w2 = v; (0,0) returns attr[v0], (1,0) attr[v1] and
\* (0,1) attr[v2].
C12_Barycentric ==
    TriangleInterpolated =>
        LET t == triangles[eid + 1]
            u == euv[1]
            v == euv[2]
            w0 == FSub(FSub(F(1), u), v)
        IN  /\ val = FAdd(FAdd(FMul(w0, Attr(t[1])), FMul(u, Attr(t[2]))),
                          FMul(v, Attr(t[3])))
            /\ euv = <<F(0), F(0)>> => val = Attr(t[1])
            /\ euv = <<F(1), F(0)>> => val = Attr(t[2])
            /\ euv = <<F(0), F(1)>> => val = Attr(t[3])

\* the three-array interpolate_vert at (1/4, 1/2) of triangle (0, 1, 2):
\* 1/4 * 1 + 1/4 * 2 + 1/2 * 4
C12_Witness ==
    /\ iv_pc = "done"
    /\ iv_kind = "shape"
    /\ points = <<>>
    /\ lines = <<>>
    /\ triangles = <<<<0, 1, 2>>>>
    /\ eid = 0
    /\ euv = <<Frac(1, 4), Frac(1, 2)>>
    /\ val = Frac(11, 4)

\* interpolate_vert has returned for a line element that sample_shape
\* selected with the draw uvrn
LineInterpolated ==
    /\ iv_pc = "done"
    /\ sm_entry = "shape"
    /\ sm_kind = "lines"
    /\ \/ iv_kind = "lines"
       \/ iv_kind = "shape" /\ points = <<>> /\ lines # <<>>
    /\ eid \in 0 .. Len(lines) - 1

\* C13: for a line (a, b) and a line element reference produced by the
\* sampler from a draw uvrn, with t the scalar draw, interpolate_vert returns
\* (1-t)*attr[a] + t*attr[b], whatever the second component of the
\* coordinate pair is; t = 0 returns attr[a].
C13_LineLerp ==
    LineInterpolated =>
        LET l == lines[eid + 1]
            t == uvrn[1]
        IN  /\ val = FAdd(FMul(FSub(F(1), t), Attr(l[1])), FMul(t, Attr(l[2])))
            /\ t = F(0) => val = Attr(l[1])

\* how many of the three sequences are not empty
Filled3(a, b, c) ==
    (IF a # <<>> THEN 1 ELSE 0) + (IF b # <<>> THEN 1 ELSE 0)
        + (IF c # <<>> THEN 1 ELSE 0)

\* C14: sample_shape_cdf, sample_shape and interpolate_vert over three
\* arrays go on to compute and return normally only when exactly one of the
\* arrays (or cdfs) is not empty; any other call is reported as an error
\* first.
C14_ExactlyOne ==
    /\ sm_pc = "built" => Filled3(points, lines, triangles) = 1
    /\ (sm_entry = "shape" /\ sm_pc \in {"search", "done"}) =>
            Filled3(shape_cdfs[1], shape_cdfs[2], shape_cdfs[3]) = 1
    /\ (iv_kind = "shape" /\ iv_pc = "done") =>
            Filled3(points, lines, triangles) = 1

-----------------------------------------------------------------------------
(* Termination of the search, checked under SpecSearchFair. *)

\* the search has returned an element id for the cdf
Searched == sm_pc = "done" /\ Len(cdf) >= 1

\* C18: the binary search behind sample_shape terminates for every cdf
\* length k >= 0 and every ern; for a non-decreasing cdf of length k >= 1
\* that ends in 1 and ern in [0, 1) the element id lies in [0, k-1]; and for
\* a cdf of length k >= 1 the id k, one past the end, is returned only when
\* ern is greater than the last entry.
C18_Terminates ==
    /\ (sm_pc = "search") ~> (sm_pc = "done")
    /\ [](Searched =>
            /\ (NonDecreasing(cdf) /\ cdf[Len(cdf)] = F(1)
                    /\ FLeq(F(0), ern) /\ FLess(ern, F(1))) =>
                  eid \in 0 .. Len(cdf) - 1
            /\ eid = Len(cdf) => FLess(cdf[Len(cdf)], ern))

\* a draw above the last entry: the id is one past the end
C18_Witness ==
    /\ sm_pc = "done"
    /\ cdf = <<F(0), Frac(1, 2)>>
    /\ ern = Frac(99, 100)
    /\ eid = 2

=============================================================================
